---- MODULE Spec2Model ----
(***************************************************************************)
(* State-machine model of the SCA training simulator backend.              *)
(*                                                                         *)
(* The committed database is the shared state: users, patient_cases,       *)
(* consultations, peer_comments (consultation router) and cases, ice,      *)
(* background_details, information_divulged, doctor_info (case router).    *)
(* Every request runs in its own SQLAlchemy session; a handler is split    *)
(* into one step per database round trip that other requests can observe   *)
(* (the query that loads a row, each db.commit()), so that concurrent      *)
(* requests interleave exactly where the code lets them.  req[w] holds the *)
(* position and the session-local values of the request served by worker   *)
(* w; last is the response of the request that completed most recently.    *)
(*                                                                         *)
(* Primary keys are the positions of the rows in their tables (no handler  *)
(* deletes a row).  The consultation router is written against the         *)
(* PatientCase data model; the model keeps the router's own field names    *)
(* (patient_case_id, age, presenting, context).                            *)
(***************************************************************************)
EXTENDS Integers, Sequences, FiniteSets, TLC

\* ------------------------------------------------------------------ bounds
NumWorkers == 2
MaxUsers == 2
MaxPatientCases == 2
MaxConsultations == 2
MaxComments == 2
\* the rows the interleaved specification lets the tables grow to
MaxRacedConsultations == 1
MaxRacedComments == 2
MaxCases == 2
\* longest artifact.transcript string tried, in tokens
MaxTranscriptTokens == 4

Workers == 1..NumWorkers
UserIds == 1..MaxUsers
\* identifiers a caller may name: every row that can exist, and one that never does
ConsultationIds == 1..(MaxConsultations + 1)
CaseIds == 1..(MaxCases + 1)

\* ------------------------------------------------------------- input values
Transcripts == {"Doctor: hello", "Doctor: goodbye"}
\* the text s written n times
RECURSIVE Repeat(_, _)
Repeat(s, n) == IF n = 0 THEN "" ELSE s \o Repeat(s, n - 1)

\* String(300) of peer_comments.comment
MaxCommentLength == 300
LongComment == Repeat("0123456789", 31)
Comments == {"well done", LongComment}
\* CommentRequest.user_id: the first user to register, and another
CommentUserIds == {1, 2}

\* ScoreRequest.case_details as the handler reads it (age, presenting, context)
Headache == [age |-> 30, presenting |-> "headache", context |-> "works long hours"]
HeadacheAgain == [age |-> 30, presenting |-> "headache", context |-> "second opinion"]
Cough == [age |-> 45, presenting |-> "cough", context |-> "smoker"]
AllCaseDetails == {Headache, HeadacheAgain, Cough}

\* what score_consultation() hands back: the parsed JSON object of the scorer
\* (keys: the keys the object has), or an exception (raised: the API call
\* failed, or json.loads rejected the content)
ScoreKeys == {"overall_score", "feedback", "scores"}
ScorerFailure ==
  [raised |-> TRUE, keys |-> {}, overall_score |-> 0, feedback |-> "",
   scores |-> <<>>]
GoodScores ==
  [raised |-> FALSE, keys |-> ScoreKeys, overall_score |-> 4, feedback |-> "good",
   scores |-> <<4, 4, 4>>, coverage |-> <<"COVERED", "NOT_COVERED">>]
NoOverallScores ==
  [raised |-> FALSE, keys |-> {"feedback", "scores"}, overall_score |-> 0,
   feedback |-> "good", scores |-> <<4, 4, 4>>]
\* the answer of the language model is no JSON: json.loads raises
UnparsableAnswer == [ScorerFailure EXCEPT !.feedback = "JSONDecodeError"]
ScorerOutcomes == {GoodScores, NoOverallScores, ScorerFailure, UnparsableAnswer}

\* what json.loads accepts from the language model besides: any JSON object,
\* whatever its numbers and its coverage_status strings
OutOfRangeScores == [GoodScores EXCEPT !.scores = <<7, 4, 4>>, !.overall_score = 5]
WrongMeanScores == [GoodScores EXCEPT !.overall_score = 2]
UnknownCoverageScores == [GoodScores EXCEPT !.coverage = <<"COVERED", "MAYBE">>]
ScorerResponses ==
  ScorerOutcomes \cup {OutOfRangeScores, WrongMeanScores, UnknownCoverageScores}

\* ---- the call record of the voice provider (call_data = response.json()) ----
\* A string is the sequence of its tokens: words, the colon, the blank and
\* the newline.
Tokens == {"Doctor", "doctor", "Patient", ":", " ", "\n"}

RECURSIVE StringsOfLength(_)
StringsOfLength(n) ==
  IF n = 0 THEN {<<>>}
  ELSE {Append(str, t) : str \in StringsOfLength(n - 1), t \in Tokens}

TranscriptStrings == UNION {StringsOfLength(n) : n \in 0..MaxTranscriptTokens}

\* "Doctor: hi" and "Patient: hi" on two lines, with a line without a label between
LabelledLines ==
  <<"Doctor", ":", " ", "Patient", "\n", "Patient", "\n", "Patient", ":", "Doctor">>

\* a key of the record: absent, a list (value) or a string (str)
Missing ==
  [present |-> FALSE, is_list |-> FALSE, is_str |-> FALSE, value |-> <<>>, str |-> <<>>]
ListValue(v) == [Missing EXCEPT !.present = TRUE, !.is_list = TRUE, !.value = v]
StringValue(v) == [Missing EXCEPT !.present = TRUE, !.is_str = TRUE, !.str = v]

\* turns already in {speaker, text} form
StructuredTurns == <<[speaker |-> "human", text |-> <<"top-level">>]>>
ArtifactTurns == <<[speaker |-> "assistant", text |-> <<"artifact">>]>>
\* call_data["messages"]: an entry without "message" is passed over
HumanMessage == [keys |-> {"role", "message"}, role |-> "human", message |-> <<"messages">>]
BotMessage == [keys |-> {"role", "message"}, role |-> "bot", message |-> <<"reply">>]
RoleOnlyMessage == [keys |-> {"role"}, role |-> "human", message |-> <<>>]
\* call_data["artifact"]["messagesOpenAIFormatted"]
SystemPrompt == [keys |-> {"role", "content"}, role |-> "system", content |-> <<"prompt">>]
UserContent == [keys |-> {"role", "content"}, role |-> "user", content |-> <<"openai">>]

TopLevelTranscripts ==
  {Missing, ListValue(<<>>), ListValue(StructuredTurns), StringValue(<<"Doctor">>)}
ArtifactTranscripts ==
  {Missing, ListValue(<<>>), ListValue(ArtifactTurns), StringValue(<<"Patient">>),
   StringValue(LabelledLines)}
MessageArrays ==
  {Missing, ListValue(<<>>), ListValue(<<RoleOnlyMessage>>),
   ListValue(<<HumanMessage, RoleOnlyMessage, BotMessage>>)}
OpenAIArrays ==
  {Missing, ListValue(<<SystemPrompt>>), ListValue(<<SystemPrompt, UserContent>>)}

CallData(top, has_artifact, artifact_transcript, openai, messages) ==
  [transcript |-> top, has_artifact |-> has_artifact,
   artifact_transcript |-> artifact_transcript, openai |-> openai,
   messages |-> messages]

\* the records tried: every combination of the shapes, and every string as
\* artifact.transcript with and without a top-level list and OpenAI messages
CallRecords ==
  {CallData(top, TRUE, at, oa, ms) :
     top \in TopLevelTranscripts, at \in ArtifactTranscripts,
     oa \in OpenAIArrays, ms \in MessageArrays}
  \cup {CallData(top, FALSE, Missing, Missing, ms) :
          top \in TopLevelTranscripts, ms \in MessageArrays}
  \cup {CallData(top, TRUE, StringValue(str), oa, Missing) :
          top \in {Missing, ListValue(StructuredTurns)}, str \in TranscriptStrings,
          oa \in {Missing, ListValue(<<SystemPrompt, UserContent>>)}}

\* CreateUser / OAuthUserCreate first names
FirstNames == {"Ann", "Bob"}

\* what the auth service does with a registration: no answer at all, an error
\* status with a JSON body (mismatched passwords), an error status with a
\* body that is no JSON (a gateway's error page), or the id of the new user
AuthUnreachable == [answered |-> FALSE, status |-> 0, json |-> FALSE, id |-> 0]
AuthRejects == [answered |-> TRUE, status |-> 400, json |-> TRUE, id |-> 0]
AuthBadGateway == [answered |-> TRUE, status |-> 502, json |-> FALSE, id |-> 0]
AuthCreated(id) == [answered |-> TRUE, status |-> 201, json |-> TRUE, id |-> id]
AuthOutcomes ==
  {AuthUnreachable, AuthRejects, AuthBadGateway} \cup {AuthCreated(id) : id \in UserIds}

\* CreateCaseRequest values
CaseNumbers == {"CASE-100", "John Doe"}
IdeaEntry == [ice_type |-> "IDEA", description |-> "worried about cancer"]
ConcernEntry == [ice_type |-> "CONCERN", description |-> "time off work"]
IceLists == {<<>>, <<IdeaEntry>>, <<IdeaEntry, ConcernEntry>>}
BackgroundLists == {<<>>, <<[detail |-> "lives alone"]>>}
InformationLists ==
  {<<>>, <<[divulgence_type |-> "FREELY_DIVULGED", description |-> "poor sleep"]>>}
NoDoctorInfo == <<>>
DoctorInfos ==
  {NoDoctorInfo,
   <<[name |-> "Pat Jones", age |-> 52, past_medical_history |-> "asthma",
      current_medication |-> "salbutamol", context |-> "new patient"]>>}

CreateCaseRequests ==
  [case_number : CaseNumbers, patient_name : {"Pat Jones"}, patient_age : {52},
   presenting_complaint : {"chest pain"}, notes : {"none"},
   ice_entries : IceLists, background_details : BackgroundLists,
   information_divulged : InformationLists, doctor_info : DoctorInfos]

VARIABLES
  users,            \* users table: id -> [first_name, last_name]
  patient_cases,    \* patient_cases table
  consultations,    \* consultations table
  peer_comments,    \* peer_comments table
  cases,            \* cases table
  ice,              \* ice table
  background_details,
  information_divulged,
  doctor_info,
  req,              \* per worker: the request in progress and its session-local values
  last              \* the response most recently returned

dbPeer == <<users, patient_cases, consultations, peer_comments>>
dbCase == <<cases, ice, background_details, information_divulged, doctor_info>>
vars == <<users, patient_cases, consultations, peer_comments, cases, ice,
          background_details, information_divulged, doctor_info, req, last>>

\* ------------------------------------------------------------------ helpers
\* an absent value
None == [none |-> TRUE]

Idle ==
  [op |-> "idle", pc |-> "idle", id |-> 0, uid |-> 0, text |-> "",
   details |-> None, scores |-> None, seen |-> FALSE, input |-> None]

\* detail=str(e) of a 500 response: the exception the handler caught
ScorerError == [error |-> "scorer error"]
KeyError == [error |-> "KeyError"]
IntegrityError == [error |-> "IntegrityError"]
OperationalError == [error |-> "OperationalError"]
DataError == [error |-> "DataError"]

NoResponse == [op |-> "none", status |-> 0, id |-> 0, body |-> None]

Response(op, status, id, body) ==
  [op |-> op, status |-> status, id |-> id, body |-> body]

IsIdle(w) == req[w].pc = "idle"

Pending(pc) == Cardinality({w \in Workers : req[w].pc = pc})

\* filter_by(field=value): the ids of the rows of a table (a sequence) whose
\* field has the value
RowIds(table, field, value) == {i \in DOMAIN table : table[i][field] = value}

\* an upsert: a row equal to an existing one is not stored again
AddRow_Merge(table, row) ==
  IF \E i \in DOMAIN table : table[i] = row THEN table ELSE Append(table, row)

\* db.add(row); db.commit(): the table with the new row
AddRow(table, row) == Append(table, row)

\* the ids in S in increasing order
RECURSIVE SortedIds(_)
SortedIds(S) ==
  IF S = {} THEN <<>>
  ELSE LET m == CHOOSE x \in S : \A y \in S : x <= y
       IN <<m>> \o SortedIds(S \ {m})

Finish(w, response) ==
  /\ req' = [req EXCEPT ![w] = Idle]
  /\ last' = response

Continue(w, r) ==
  /\ req' = [req EXCEPT ![w] = r]
  /\ UNCHANGED last

\* ------------------------------------------------------ database constraints
\* users.id is the primary key
UserExists(uid) == uid \in DOMAIN users

\* the column declared without its ForeignKey
UserForeignKeyHolds_Off(uid) == TRUE

\* ForeignKey('users.id') on consultations.user_id and peer_comments.user_id
UserForeignKeyHolds(uid) == UserExists(uid)

\* ---------------------------------------------------------- oauth_register
OAuthRegisterQuery(w, id, first, lst) ==
  /\ IsIdle(w)
  /\ Continue(w, [Idle EXCEPT !.op = "oauth_register", !.pc = "oauth_commit",
                              !.uid = id, !.seen = UserExists(id),
                              !.input = [first_name |-> first, last_name |-> lst]])
  /\ UNCHANGED <<dbPeer, dbCase>>

\* an existing user returned as it is, its names not updated
OAuthRegisterCommit_KeepsNames(w) ==
  /\ req[w].pc = "oauth_commit"
  /\ LET id == req[w].uid
         row == IF UserExists(id) THEN users[id] ELSE req[w].input
     IN /\ users' = [u \in DOMAIN users \cup {id} |-> IF u = id THEN row ELSE users[u]]
        /\ Finish(w, Response("oauth_register", 201, id,
                              [first_name |-> row.first_name,
                               last_name |-> row.last_name,
                               is_new_user |-> ~UserExists(id)]))
  /\ UNCHANGED <<patient_cases, consultations, peer_comments, dbCase>>

OAuthRegisterCommit(w) ==
  /\ req[w].pc = "oauth_commit"
  /\ LET id == req[w].uid
         row == req[w].input
     IN IF req[w].seen
        THEN \* existing_user.first_name = ...; db.commit()
             /\ users' = [users EXCEPT ![id] = row]
             /\ Finish(w, Response("oauth_register", 201, id,
                                   [first_name |-> row.first_name,
                                    last_name |-> row.last_name,
                                    is_new_user |-> FALSE]))
        ELSE IF UserExists(id)
        THEN \* the insert meets a row another request committed meanwhile
             /\ UNCHANGED users
             /\ Finish(w, Response("oauth_register", 500, 0, IntegrityError))
        ELSE /\ users' = [u \in DOMAIN users \cup {id} |->
                            IF u = id THEN row ELSE users[u]]
             /\ Finish(w, Response("oauth_register", 201, id,
                                   [first_name |-> row.first_name,
                                    last_name |-> row.last_name,
                                    is_new_user |-> TRUE]))
  /\ UNCHANGED <<patient_cases, consultations, peer_comments, dbCase>>

\* ------------------------------------------------------------------ register
\* the call to the auth service: client.post(...), raise_for_status(), json()
RegisterAuth(w, first, lst, outcome) ==
  /\ IsIdle(w)
  /\ IF ~outcome.answered
     THEN \* httpx.ConnectError has no response: 500, detail=str(e)
          Finish(w, Response("register", 500, 0, [error |-> "ConnectError"]))
     ELSE IF outcome.status \notin 200..299
     THEN IF outcome.json
          THEN \* HTTPException(e.response.status_code, e.response.json())
               Finish(w, Response("register", outcome.status, 0,
                                  [detail |-> "auth service detail"]))
          ELSE \* e.response.json() raises inside the except clause
               Finish(w, Response("register", 500, 0, [error |-> "JSONDecodeError"]))
     ELSE Continue(w, [Idle EXCEPT !.op = "register", !.pc = "register_commit",
                                   !.uid = outcome.id,
                                   !.input = [first_name |-> first, last_name |-> lst]])
  /\ UNCHANGED <<dbPeer, dbCase>>

\* new_user = User(id=user_id, ...); db.add(new_user); db.commit()
RegisterCommit(w) ==
  /\ req[w].pc = "register_commit"
  /\ IF UserExists(req[w].uid)
     THEN /\ UNCHANGED users
          /\ Finish(w, Response("register", 500, 0, IntegrityError))
     ELSE /\ users' = [u \in DOMAIN users \cup {req[w].uid} |->
                         IF u = req[w].uid THEN req[w].input ELSE users[u]]
          /\ Finish(w, Response("register", 201, req[w].uid, req[w].input))
  /\ UNCHANGED <<patient_cases, consultations, peer_comments, dbCase>>

\* ------------------------------------------------------ score-consultation
\* the lookup filtering by the context as well
SameCase_WithContext(details) ==
  (RowIds(patient_cases, "age", details.age)
     \cap RowIds(patient_cases, "presenting", details.presenting))
    \cap RowIds(patient_cases, "context", details.context)

SameCase(details) ==
  RowIds(patient_cases, "age", details.age)
    \cap RowIds(patient_cases, "presenting", details.presenting)

\* scores["overall_score"], scores["feedback"], scores["scores"]
HasScoreKeys(scores) == ScoreKeys \subseteq scores.keys

\* score_consultation falling back to default scores when the call or the
\* parsing fails, as generate_case does
ScoreQuery_Fallback(w, transcript, details, uid, outcome) ==
  /\ IsIdle(w)
  /\ LET r == [Idle EXCEPT !.op = "score", !.uid = uid, !.text = transcript,
                           !.details = details,
                           !.scores = IF outcome.raised THEN GoodScores ELSE outcome]
     IN IF SameCase(details) = {}
        THEN Continue(w, [r EXCEPT !.pc = "score_case"])
        ELSE \E c \in SameCase(details) :
               Continue(w, [r EXCEPT !.pc = "score_insert", !.id = c])
  /\ UNCHANGED <<dbPeer, dbCase>>

\* the case found or created first, the scorer called after it
ScoreQuery_CaseFirst(w, transcript, details, uid, outcome) ==
  /\ IsIdle(w)
  /\ IF outcome.raised
     THEN /\ patient_cases' = IF SameCase(details) = {}
                              THEN Append(patient_cases, details)
                              ELSE patient_cases
          /\ Finish(w, Response("score", 500, 0, ScorerError))
          /\ UNCHANGED <<users, consultations, peer_comments>>
     ELSE /\ LET r == [Idle EXCEPT !.op = "score", !.uid = uid, !.text = transcript,
                                   !.details = details, !.scores = outcome]
             IN IF SameCase(details) = {}
                THEN Continue(w, [r EXCEPT !.pc = "score_case"])
                ELSE \E c \in SameCase(details) :
                       Continue(w, [r EXCEPT !.pc = "score_insert", !.id = c])
          /\ UNCHANGED dbPeer
  /\ UNCHANGED dbCase

\* score_consultation(...), then the lookup of the patient case
ScoreQuery(w, transcript, details, uid, outcome) ==
  /\ IsIdle(w)
  /\ IF outcome.raised
     THEN Finish(w, Response("score", 500, 0, ScorerError))
     ELSE LET r == [Idle EXCEPT !.op = "score", !.uid = uid, !.text = transcript,
                                !.details = details, !.scores = outcome]
          IN IF SameCase(details) = {}
             THEN Continue(w, [r EXCEPT !.pc = "score_case"])
             ELSE \E c \in SameCase(details) :
                    Continue(w, [r EXCEPT !.pc = "score_insert", !.id = c])
  /\ UNCHANGED <<dbPeer, dbCase>>

\* if not case: db.add(case); db.commit(); db.refresh(case)
ScoreCreateCase(w) ==
  /\ req[w].pc = "score_case"
  /\ patient_cases' = Append(patient_cases, req[w].details)
  /\ Continue(w, [req[w] EXCEPT !.pc = "score_insert", !.id = Len(patient_cases) + 1])
  /\ UNCHANGED <<users, consultations, peer_comments, dbCase>>

\* the row created with the shared flag set
NewConsultation_Shared(r) ==
  [user_id |-> r.uid, patient_case_id |-> r.id, transcript |-> r.text,
   overall_score |-> r.scores.overall_score, feedback |-> r.scores.feedback,
   domain_scores |-> r.scores.scores, is_shared |-> TRUE]

\* Consultation(...): is_shared is left to its column default, False
NewConsultation(r) ==
  [user_id |-> r.uid, patient_case_id |-> r.id, transcript |-> r.text,
   overall_score |-> r.scores.overall_score, feedback |-> r.scores.feedback,
   domain_scores |-> r.scores.scores, is_shared |-> FALSE]

\* the case added to the session without a commit of its own, so that the
\* failure of the consultation takes the new case with it
ScoreInsert_OneTransaction(w) ==
  /\ req[w].pc = "score_insert"
  /\ IF HasScoreKeys(req[w].scores) /\ UserForeignKeyHolds(req[w].uid)
     THEN /\ consultations' = AddRow(consultations, NewConsultation(req[w]))
          /\ UNCHANGED patient_cases
          /\ Finish(w, Response("score", 201, Len(consultations) + 1, req[w].scores))
     ELSE /\ UNCHANGED consultations
          /\ patient_cases' =
               IF /\ req[w].id = Len(patient_cases)
                  /\ RowIds(consultations, "patient_case_id", req[w].id) = {}
               THEN SubSeq(patient_cases, 1, Len(patient_cases) - 1)
               ELSE patient_cases
          /\ Finish(w, Response("score", 500, 0,
                                IF HasScoreKeys(req[w].scores)
                                THEN IntegrityError ELSE KeyError))
  /\ UNCHANGED <<users, peer_comments, dbCase>>

\* Consultation(...); db.add(consultation); db.commit(); db.refresh(consultation)
ScoreInsert(w) ==
  /\ req[w].pc = "score_insert"
  /\ IF HasScoreKeys(req[w].scores) /\ UserForeignKeyHolds(req[w].uid)
     THEN /\ consultations' = AddRow(consultations, NewConsultation(req[w]))
          /\ Finish(w, Response("score", 201, Len(consultations) + 1, req[w].scores))
     ELSE /\ UNCHANGED consultations
          /\ Finish(w, Response("score", 500, 0,
                                IF HasScoreKeys(req[w].scores)
                                THEN IntegrityError ELSE KeyError))
  /\ UNCHANGED <<users, patient_cases, peer_comments, dbCase>>

\* ------------------------------------------------------------ share / unshare
\* the flush rewriting the feedback along with the flag
SetShared_ClearsFeedback(table, id, value) ==
  [table EXCEPT ![id].is_shared = value, ![id].feedback = ""]

SetShared(table, id, value) == [table EXCEPT ![id].is_shared = value]

ShareQuery(w, id) ==
  /\ IsIdle(w)
  /\ IF id \in DOMAIN consultations
     THEN Continue(w, [Idle EXCEPT !.op = "share", !.pc = "share_commit", !.id = id,
                                   !.seen = consultations[id].is_shared])
     ELSE Finish(w, Response("share", 404, id, None))
  /\ UNCHANGED <<dbPeer, dbCase>>

\* share written as a toggle: consultation.is_shared = not consultation.is_shared
ShareCommit_Toggle(w) ==
  /\ req[w].pc = "share_commit"
  /\ consultations' = SetShared(consultations, req[w].id, ~req[w].seen)
  /\ Finish(w, Response("share", 200, req[w].id, None))
  /\ UNCHANGED <<users, patient_cases, peer_comments, dbCase>>

\* consultation.is_shared = True; db.commit(): the flush writes the column
\* only when the value differs from the one the session loaded
ShareCommit(w) ==
  /\ req[w].pc = "share_commit"
  /\ consultations' =
       IF req[w].seen THEN consultations ELSE SetShared(consultations, req[w].id, TRUE)
  /\ Finish(w, Response("share", 200, req[w].id, None))
  /\ UNCHANGED <<users, patient_cases, peer_comments, dbCase>>

UnshareQuery(w, id) ==
  /\ IsIdle(w)
  /\ IF id \in DOMAIN consultations
     THEN Continue(w, [Idle EXCEPT !.op = "unshare", !.pc = "unshare_commit", !.id = id,
                                   !.seen = consultations[id].is_shared])
     ELSE Finish(w, Response("unshare", 404, id, None))
  /\ UNCHANGED <<dbPeer, dbCase>>

UnshareCommit(w) ==
  /\ req[w].pc = "unshare_commit"
  /\ consultations' =
       IF req[w].seen THEN SetShared(consultations, req[w].id, FALSE) ELSE consultations
  /\ Finish(w, Response("unshare", 200, req[w].id, None))
  /\ UNCHANGED <<users, patient_cases, peer_comments, dbCase>>

\* -------------------------------------------------------------- get_vapi_call
Whitespace == {" ", "\n"}

\* str.strip()
RECURSIVE Strip(_)
Strip(str) ==
  IF Len(str) = 0 THEN str
  ELSE IF Head(str) \in Whitespace THEN Strip(Tail(str))
  ELSE IF str[Len(str)] \in Whitespace THEN Strip(SubSeq(str, 1, Len(str) - 1))
  ELSE str

\* str.split("\n")
RECURSIVE SplitLines(_)
SplitLines(str) ==
  IF \A k \in DOMAIN str : str[k] # "\n" THEN <<str>>
  ELSE LET n == CHOOSE k \in DOMAIN str :
                  str[k] = "\n" /\ \A j \in 1..(k - 1) : str[j] # "\n"
       IN <<SubSeq(str, 1, n - 1)>> \o SplitLines(SubSeq(str, n + 1, Len(str)))

\* str.lower()
Lower(str) ==
  [k \in DOMAIN str |->
     IF str[k] = "Doctor" THEN "doctor"
     ELSE IF str[k] = "Patient" THEN "patient" ELSE str[k]]

\* ":" in line
HasColon(line) == \E k \in DOMAIN line : line[k] = ":"

\* speaker, text = line.split(":", 1), then the turn built from them
TurnOfLine(line) ==
  LET n == CHOOSE k \in DOMAIN line : line[k] = ":" /\ \A j \in 1..(k - 1) : line[j] # ":"
      speaker == SubSeq(line, 1, n - 1)
      text == SubSeq(line, n + 1, Len(line))
  IN [speaker |-> IF Lower(Strip(speaker)) = <<"doctor">> THEN "human" ELSE "assistant",
      text |-> Strip(text)]

\* for line in lines: if ":" in line: transcript.append(...)
RECURSIVE TurnsOfLines(_)
TurnsOfLines(lines) ==
  IF Len(lines) = 0 THEN <<>>
  ELSE (IF HasColon(Head(lines)) THEN <<TurnOfLine(Head(lines))>> ELSE <<>>)
         \o TurnsOfLines(Tail(lines))

ParseTranscriptString(str) == TurnsOfLines(SplitLines(Strip(str)))

\* for msg in call_data["messages"]: if "role" in msg and "message" in msg
RECURSIVE TurnsOfMessages(_)
TurnsOfMessages(msgs) ==
  IF Len(msgs) = 0 THEN <<>>
  ELSE (IF {"role", "message"} \subseteq Head(msgs).keys
        THEN <<[speaker |-> IF Head(msgs).role = "human" THEN "human" ELSE "assistant",
                text |-> Head(msgs).message]>>
        ELSE <<>>)
         \o TurnsOfMessages(Tail(msgs))

\* for msg in ...["messagesOpenAIFormatted"]: system messages are skipped
RECURSIVE TurnsOfOpenAI(_)
TurnsOfOpenAI(msgs) ==
  IF Len(msgs) = 0 THEN <<>>
  ELSE (IF {"role", "content"} \subseteq Head(msgs).keys /\ Head(msgs).role # "system"
        THEN <<[speaker |-> Head(msgs).role, text |-> Head(msgs).content]>>
        ELSE <<>>)
         \o TurnsOfOpenAI(Tail(msgs))

\* the if / elif / elif chain over the places of the transcript
ChainTranscript(call) ==
  IF call.transcript.present /\ call.transcript.is_list
  THEN call.transcript.value
  ELSE IF call.has_artifact /\ call.artifact_transcript.present
  THEN IF call.artifact_transcript.is_str
       THEN ParseTranscriptString(call.artifact_transcript.str)
       ELSE call.artifact_transcript.value
  ELSE IF call.messages.present
  THEN TurnsOfMessages(call.messages.value)
  ELSE <<>>

\* the chain, then messagesOpenAIFormatted if there is no turn yet
NormalizedTranscript(call) ==
  IF Len(ChainTranscript(call)) = 0 /\ call.has_artifact /\ call.openai.present
  THEN TurnsOfOpenAI(call.openai.value)
  ELSE ChainTranscript(call)

\* httpx.get(...); call_data = response.json(): the record of the provider
VapiFetch(w, call) ==
  /\ IsIdle(w)
  /\ Continue(w, [Idle EXCEPT !.op = "get_vapi_call", !.pc = "vapi_normalize",
                              !.input = call])
  /\ UNCHANGED <<dbPeer, dbCase>>

\* the transcript extracted from call_data and returned
VapiNormalize(w) ==
  /\ req[w].pc = "vapi_normalize"
  /\ Finish(w, Response("get_vapi_call", 200, 0,
                        [transcript |-> NormalizedTranscript(req[w].input)]))
  /\ UNCHANGED <<dbPeer, dbCase>>

\* ---------------------------------------------------------------- comments
\* the gate left out
CommentGateOpen_Always(consultation) == TRUE

\* if not consultation.is_shared: 403
CommentGateOpen(consultation) == consultation.is_shared

AddCommentQuery(w, id, uid, text) ==
  /\ IsIdle(w)
  /\ IF id \notin DOMAIN consultations
     THEN Finish(w, Response("add_comment", 404, id, None))
     ELSE IF ~CommentGateOpen(consultations[id])
     THEN Finish(w, Response("add_comment", 403, id, None))
     ELSE Continue(w, [Idle EXCEPT !.op = "add_comment", !.pc = "comment_commit",
                                   !.id = id, !.uid = uid, !.text = text])
  /\ UNCHANGED <<dbPeer, dbCase>>

NewComment(r) == [consultation_id |-> r.id, user_id |-> r.uid, comment |-> r.text]

\* the value fits the column comment = Column(String(300))
CommentFits(text) == Len(text) <= MaxCommentLength

\* db.add(comment); db.commit(); db.refresh(comment)
AddCommentCommit(w) ==
  /\ req[w].pc = "comment_commit"
  /\ IF UserForeignKeyHolds(req[w].uid) /\ CommentFits(req[w].text)
     THEN /\ peer_comments' = AddRow(peer_comments, NewComment(req[w]))
          /\ Finish(w, Response("add_comment", 200, req[w].id,
                                [comment_id |-> Len(peer_comments) + 1]))
     ELSE /\ UNCHANGED peer_comments
          /\ Finish(w, Response("add_comment", 500, req[w].id,
                                IF UserForeignKeyHolds(req[w].uid)
                                THEN DataError ELSE IntegrityError))
  /\ UNCHANGED <<users, patient_cases, consultations, dbCase>>

\* the display name of the commenting user
Username(uid) == IF UserExists(uid) THEN users[uid].first_name ELSE "Anonymous"

CommentView(i) ==
  [id |-> i, user_id |-> peer_comments[i].user_id,
   username |-> Username(peer_comments[i].user_id),
   comment |-> peer_comments[i].comment]

\* consultation.peer_comments
CommentsOf(id) == RowIds(peer_comments, "consultation_id", id)

\* the comments listed only while the consultation is shared (as get_history
\* counts them)
ListedComments_SharedOnly(id, order) ==
  LET ids == IF consultations[id].is_shared THEN order ELSE <<>>
  IN [k \in DOMAIN ids |-> CommentView(ids[k])]

\* the orders in which the rows of consultation.peer_comments can be loaded:
\* the relationship has no order_by and the SELECT of the lazy load no
\* ORDER BY, so the database may hand the rows back in any order
CommentOrders(id) ==
  LET n == Cardinality(CommentsOf(id))
  IN {order \in [1..n -> CommentsOf(id)] :
        \A j, k \in 1..n : j # k => order[j] # order[k]}

\* for comment in consultation.peer_comments: comments.append({...})
ListedComments(id, order) == [k \in DOMAIN order |-> CommentView(order[k])]

\* the comments selected by consultation id without loading the consultation
GetComments_NoLookup(w, id) ==
  /\ IsIdle(w)
  /\ \E order \in IF id \in DOMAIN consultations THEN CommentOrders(id) ELSE {<<>>} :
       Finish(w, Response("get_comments", 200, id,
                          [comments |-> ListedComments(id, order)]))
  /\ UNCHANGED <<dbPeer, dbCase>>

GetComments(w, id) ==
  /\ IsIdle(w)
  /\ IF id \in DOMAIN consultations
     THEN \E order \in CommentOrders(id) :
            Finish(w, Response("get_comments", 200, id,
                               [comments |-> ListedComments(id, order)]))
     ELSE Finish(w, Response("get_comments", 404, id, None))
  /\ UNCHANGED <<dbPeer, dbCase>>

\* -------------------------------------------------- get_shared_consultations
\* created_at of the row: the rows of a table are stamped in the order in
\* which they are created (the base model is not part of src)
CreatedAt(id) == id

\* order_by(Consultation.created_at.desc())
RECURSIVE NewestFirst(_)
NewestFirst(S) ==
  IF S = {} THEN <<>>
  ELSE LET m == CHOOSE x \in S : \A y \in S : CreatedAt(y) <= CreatedAt(x)
       IN <<m>> \o NewestFirst(S \ {m})

\* the query without filter_by(is_shared=True), as get_history has it
SharedConsultationIds_NoFilter ==
  {id \in DOMAIN consultations :
     consultations[id].patient_case_id \in DOMAIN patient_cases}

\* db.query(Consultation).filter_by(is_shared=True).join(PatientCase)
SharedConsultationIds ==
  {id \in DOMAIN consultations :
     /\ consultations[id].is_shared
     /\ consultations[id].patient_case_id \in DOMAIN patient_cases}

\* the entry appended to shared for one consultation
SharedView(id) ==
  LET consultation == consultations[id]
      patient_case == patient_cases[consultation.patient_case_id]
  IN [id |-> id, timestamp |-> CreatedAt(id),
      case_details |-> [age |-> patient_case.age,
                        presenting |-> patient_case.presenting,
                        context |-> patient_case.context],
      scores |-> consultation.domain_scores,
      overall_score |-> consultation.overall_score,
      feedback |-> consultation.feedback,
      has_recording |-> FALSE,
      comment_count |-> Cardinality(CommentsOf(id))]

GetSharedConsultations(w) ==
  /\ IsIdle(w)
  /\ LET ids == NewestFirst(SharedConsultationIds)
     IN Finish(w, Response("get_shared_consultations", 200, 0,
                           [shared_consultations |->
                              [k \in DOMAIN ids |-> SharedView(ids[k])]]))
  /\ UNCHANGED <<dbPeer, dbCase>>

\* ---------------------------------------------------------------- get_history
\* db.query(Consultation).join(PatientCase)
HistoryIds ==
  {id \in DOMAIN consultations :
     consultations[id].patient_case_id \in DOMAIN patient_cases}

\* comment_count = 0; if consultation.is_shared: len(consultation.peer_comments)
HistoryCommentCount(id) ==
  IF consultations[id].is_shared THEN Cardinality(CommentsOf(id)) ELSE 0

\* the entry appended to history for one consultation
HistoryView(id) ==
  LET consultation == consultations[id]
      patient_case == patient_cases[consultation.patient_case_id]
  IN [id |-> id, timestamp |-> CreatedAt(id),
      case_details |-> [age |-> patient_case.age,
                        presenting |-> patient_case.presenting,
                        context |-> patient_case.context],
      scores |-> consultation.domain_scores,
      overall_score |-> consultation.overall_score,
      feedback |-> consultation.feedback,
      has_recording |-> FALSE,
      is_shared |-> consultation.is_shared,
      comment_count |-> HistoryCommentCount(id)]

GetHistory(w) ==
  /\ IsIdle(w)
  /\ LET ids == NewestFirst(HistoryIds)
     IN Finish(w, Response("get_history", 200, 0,
                           [history |-> [k \in DOMAIN ids |-> HistoryView(ids[k])]]))
  /\ UNCHANGED <<dbPeer, dbCase>>

\* ---------------------------------------------------------------- cases
\* the column declared without unique=True
CaseNumberUnique_Off(table) == TRUE

\* Column(String(50), nullable=False, unique=True) on cases.case_number
CaseNumberUnique(table) ==
  \A i, j \in DOMAIN table : table[i].case_number = table[j].case_number => i = j

\* Column(..., ForeignKey('cases.id'), unique=True) on doctor_info.case_id
DoctorInfoUnique(table) ==
  \A i, j \in DOMAIN table : table[i].case_id = table[j].case_id => i = j

NewCase(request) ==
  [case_number |-> request.case_number, patient_name |-> request.patient_name,
   patient_age |-> request.patient_age,
   presenting_complaint |-> request.presenting_complaint, notes |-> request.notes]

\* the child rows attached to the first case instead of the new one
ChildRows_FirstCase(entries, case_id) ==
  [k \in DOMAIN entries |->
     [f \in DOMAIN entries[k] \cup {"case_id"} |->
        IF f = "case_id" THEN 1 ELSE entries[k][f]]]

\* the child rows of a request, each carrying the id of the new case
ChildRows(entries, case_id) ==
  [k \in DOMAIN entries |->
     [f \in DOMAIN entries[k] \cup {"case_id"} |->
        IF f = "case_id" THEN case_id ELSE entries[k][f]]]

\* new_case = Case(...); db.add(new_case); db.commit(); db.refresh(new_case)
CreateCaseInsert(w, request) ==
  /\ IsIdle(w)
  /\ LET inserted == Append(cases, NewCase(request))
     IN IF CaseNumberUnique(inserted)
        THEN /\ cases' = inserted
             /\ Continue(w, [Idle EXCEPT !.op = "create_case", !.pc = "case_children",
                                         !.id = Len(inserted), !.input = request])
        ELSE \* IntegrityError: db.rollback(), HTTPException(500)
             /\ UNCHANGED cases
             /\ Finish(w, Response("create_case", 500, 0, IntegrityError))
  /\ UNCHANGED <<dbPeer, ice, background_details, information_divulged, doctor_info>>

\* the rows a case owns, through the relationships of Case
OwnedBy(table, case_id) ==
  LET ids == SortedIds(RowIds(table, "case_id", case_id))
  IN [k \in DOMAIN ids |->
        [f \in DOMAIN table[ids[k]] \cup {"id"} |->
           IF f = "id" THEN ids[k] ELSE table[ids[k]][f]]]

\* relationship(..., uselist=False): the row, if there is one
ScalarRow(rows) == IF Len(rows) = 0 THEN <<>> ELSE <<rows[1]>>

\* a case as the response model CaseDetails serialises it
CaseView(case_id, caseT, iceT, backgroundT, informationT, doctorT) ==
  [id |-> case_id,
   case_number |-> caseT[case_id].case_number,
   patient_name |-> caseT[case_id].patient_name,
   patient_age |-> caseT[case_id].patient_age,
   presenting_complaint |-> caseT[case_id].presenting_complaint,
   notes |-> caseT[case_id].notes,
   ice_entries |-> OwnedBy(iceT, case_id),
   background_details |-> OwnedBy(backgroundT, case_id),
   information_divulged |-> OwnedBy(informationT, case_id),
   doctor_info |-> ScalarRow(OwnedBy(doctorT, case_id))]

\* the doctor-info block run once per ICE entry (one indentation level too
\* deep) against a doctor_info.case_id column without unique=True
CreateCaseChildren_DoctorPerIce(w, persisted) ==
  /\ req[w].pc = "case_children"
  /\ LET id == req[w].id
         request == req[w].input
         newIce == ice \o ChildRows(request.ice_entries, id)
         newBackground ==
           background_details \o ChildRows(request.background_details, id)
         newInformation ==
           information_divulged \o ChildRows(request.information_divulged, id)
         doctorRows == ChildRows(request.doctor_info, id)
         newDoctor ==
           IF Len(request.ice_entries) = 2
           THEN doctor_info \o doctorRows \o doctorRows
           ELSE doctor_info \o doctorRows
     IN IF persisted
        THEN /\ ice' = newIce
             /\ background_details' = newBackground
             /\ information_divulged' = newInformation
             /\ doctor_info' = newDoctor
             /\ Finish(w, Response("create_case", 201, id,
                                   CaseView(id, cases, newIce, newBackground,
                                            newInformation, newDoctor)))
        ELSE /\ UNCHANGED <<ice, background_details, information_divulged,
                            doctor_info>>
             /\ Finish(w, Response("create_case", 500, 0, OperationalError))
  /\ UNCHANGED <<dbPeer, cases>>

\* the children committed kind by kind: the ICE rows are in the database
\* when a later commit fails
CreateCaseChildren_CommitPerKind(w, persisted) ==
  /\ req[w].pc = "case_children"
  /\ LET id == req[w].id
         request == req[w].input
         newIce == ice \o ChildRows(request.ice_entries, id)
         newBackground ==
           background_details \o ChildRows(request.background_details, id)
         newInformation ==
           information_divulged \o ChildRows(request.information_divulged, id)
         newDoctor == doctor_info \o ChildRows(request.doctor_info, id)
     IN IF persisted /\ DoctorInfoUnique(newDoctor)
        THEN /\ ice' = newIce
             /\ background_details' = newBackground
             /\ information_divulged' = newInformation
             /\ doctor_info' = newDoctor
             /\ Finish(w, Response("create_case", 201, id,
                                   CaseView(id, cases, newIce, newBackground,
                                            newInformation, newDoctor)))
        ELSE /\ ice' = newIce
             /\ UNCHANGED <<background_details, information_divulged, doctor_info>>
             /\ Finish(w, Response("create_case", 500, 0,
                                   IF persisted THEN IntegrityError
                                   ELSE OperationalError))
  /\ UNCHANGED <<dbPeer, cases>>

\* the ICE, background, information and doctor-info rows, one db.commit(),
\* db.refresh(new_case); persisted is whether the database takes the commit
CreateCaseChildren(w, persisted) ==
  /\ req[w].pc = "case_children"
  /\ LET id == req[w].id
         request == req[w].input
         newIce == ice \o ChildRows(request.ice_entries, id)
         newBackground ==
           background_details \o ChildRows(request.background_details, id)
         newInformation ==
           information_divulged \o ChildRows(request.information_divulged, id)
         newDoctor == doctor_info \o ChildRows(request.doctor_info, id)
     IN IF persisted /\ DoctorInfoUnique(newDoctor)
        THEN /\ ice' = newIce
             /\ background_details' = newBackground
             /\ information_divulged' = newInformation
             /\ doctor_info' = newDoctor
             /\ Finish(w, Response("create_case", 201, id,
                                   CaseView(id, cases, newIce, newBackground,
                                            newInformation, newDoctor)))
        ELSE \* db.rollback(), HTTPException(500): the case row stays
             /\ UNCHANGED <<ice, background_details, information_divulged,
                            doctor_info>>
             /\ Finish(w, Response("create_case", 500, 0,
                                   IF persisted THEN IntegrityError
                                   ELSE OperationalError))
  /\ UNCHANGED <<dbPeer, cases>>

\* the fixed case_data of generate_case
GeneratedCase ==
  [case_number |-> "John Doe", patient_name |-> "John Doe", patient_age |-> 30,
   presenting_complaint |-> "I have a headache", notes |-> "I have a headache"]

GeneratedDoctorInfo(case_id) ==
  [case_id |-> case_id, name |-> "John Doe", age |-> 30,
   past_medical_history |-> "Patient reports occasional migraines since age 25",
   current_medication |-> "Paracetamol as needed",
   context |-> "Patient is a software engineer who works long hours on the computer"]

GenerateCaseInsert(w) ==
  /\ IsIdle(w)
  /\ LET inserted == Append(cases, GeneratedCase)
     IN IF CaseNumberUnique(inserted)
        THEN /\ cases' = inserted
             /\ Continue(w, [Idle EXCEPT !.op = "generate_case",
                                         !.pc = "generate_doctor",
                                         !.id = Len(inserted)])
        ELSE /\ UNCHANGED cases
             /\ Finish(w, Response("generate_case", 500, 0, IntegrityError))
  /\ UNCHANGED <<dbPeer, ice, background_details, information_divulged, doctor_info>>

GenerateCaseDoctor(w) ==
  /\ req[w].pc = "generate_doctor"
  /\ LET newDoctor == Append(doctor_info, GeneratedDoctorInfo(req[w].id))
     IN IF DoctorInfoUnique(newDoctor)
        THEN /\ doctor_info' = newDoctor
             /\ Finish(w, Response("generate_case", 200, req[w].id, None))
        ELSE /\ UNCHANGED doctor_info
             /\ Finish(w, Response("generate_case", 500, 0, IntegrityError))
  /\ UNCHANGED <<dbPeer, cases, ice, background_details, information_divulged>>

GetCase(w, id) ==
  /\ IsIdle(w)
  /\ IF id \in DOMAIN cases
     THEN Finish(w, Response("get_case", 200, id,
                             CaseView(id, cases, ice, background_details,
                                      information_divulged, doctor_info)))
     ELSE Finish(w, Response("get_case", 404, id, None))
  /\ UNCHANGED <<dbPeer, dbCase>>

\* ------------------------------------------------------------ specification
Init ==
  /\ users = <<>>
  /\ patient_cases = <<>>
  /\ consultations = <<>>
  /\ peer_comments = <<>>
  /\ cases = <<>>
  /\ ice = <<>>
  /\ background_details = <<>>
  /\ information_divulged = <<>>
  /\ doctor_info = <<>>
  /\ req = [w \in Workers |-> Idle]
  /\ last = NoResponse

\* The tables are kept within bounds by not starting a request that could
\* add a row beyond them.
RoomForConsultation(max) ==
  Len(consultations) + Pending("score_case") + Pending("score_insert") < max

RoomForPatientCase(details) ==
  \/ SameCase(details) # {}
  \/ Len(patient_cases) + Pending("score_case") < MaxPatientCases

RoomForComment(max) == Len(peer_comments) + Pending("comment_commit") < max

AllIdle == \A w \in Workers : IsIdle(w)

\* The workers are interchangeable: a new request goes to the first idle one.
Accepts(w) == IsIdle(w) /\ \A v \in Workers : v < w => ~IsIdle(v)

\* User ids are only compared for equality: a new user takes the next unused
\* id, and any existing user can register again.
RegisterStart(w) ==
  \E id \in UserIds :
    /\ id <= Cardinality(DOMAIN users) + 1
    /\ OAuthRegisterQuery(w, id, "Ann", "Lee")

\* the requests of the peer-review workflow a worker can take up
PeerStart(w, maxConsultations, maxComments) ==
  \/ /\ RoomForConsultation(maxConsultations)
     /\ RoomForPatientCase(Headache)
     /\ ScoreQuery(w, "Doctor: hello", Headache, 1, GoodScores)
  \/ \E id \in ConsultationIds : ShareQuery(w, id)
  \/ \E id \in ConsultationIds : UnshareQuery(w, id)
  \/ /\ RoomForComment(maxComments)
     /\ \E id \in ConsultationIds, uid \in CommentUserIds, text \in Comments :
          AddCommentQuery(w, id, uid, text)
  \/ \E id \in ConsultationIds : GetComments(w, id)

\* the later steps of the requests in progress
PeerStep(w) ==
  \/ OAuthRegisterCommit(w)
  \/ ScoreCreateCase(w)
  \/ ScoreInsert(w)
  \/ ShareCommit(w)
  \/ UnshareCommit(w)
  \/ AddCommentCommit(w)

\* Spec: the peer-review workflow, one request at a time
Next ==
  \E w \in Workers :
    \/ AllIdle /\ Accepts(w) /\ RegisterStart(w)
    \/ AllIdle /\ Accepts(w) /\ PeerStart(w, MaxConsultations, MaxComments)
    \/ PeerStep(w)

Spec == Init /\ [][Next]_vars

\* SpecConcurrent: the peer-review workflow, the workers' requests interleaved
NextConcurrent ==
  \E w \in Workers :
    \/ Accepts(w) /\ RegisterStart(w)
    \/ Accepts(w) /\ PeerStart(w, MaxRacedConsultations, MaxRacedComments)
    \/ PeerStep(w)

SpecConcurrent == Init /\ [][NextConcurrent]_vars

\* SpecScore: score-consultation with every input, one request at a time
ScoreStart(w) ==
  /\ RoomForConsultation(MaxConsultations)
  /\ \E transcript \in Transcripts, details \in AllCaseDetails, uid \in UserIds,
        outcome \in ScorerOutcomes :
       /\ RoomForPatientCase(details)
       /\ ScoreQuery(w, transcript, details, uid, outcome)

ScoreStep(w) ==
  \/ OAuthRegisterCommit(w)
  \/ ScoreCreateCase(w)
  \/ ScoreInsert(w)

NextScore ==
  \E w \in Workers :
    \/ AllIdle /\ Accepts(w) /\ RegisterStart(w)
    \/ AllIdle /\ Accepts(w) /\ ScoreStart(w)
    \/ ScoreStep(w)

SpecScore == Init /\ [][NextScore]_vars

\* SpecGate: one user registered and consultations scored one request at a
\* time; share, unshare and add comment interleaved with everything
GateSetUp(w) ==
  \/ users = <<>> /\ OAuthRegisterQuery(w, 1, "Ann", "Lee")
  \/ /\ RoomForConsultation(MaxRacedConsultations)
     /\ RoomForPatientCase(Headache)
     /\ ScoreQuery(w, "Doctor: hello", Headache, 1, GoodScores)

GateStart(w) ==
  \/ \E id \in ConsultationIds : ShareQuery(w, id)
  \/ \E id \in ConsultationIds : UnshareQuery(w, id)
  \/ /\ RoomForComment(MaxRacedComments)
     /\ \E id \in ConsultationIds : AddCommentQuery(w, id, 1, "well done")

NextGate ==
  \E w \in Workers :
    \/ AllIdle /\ Accepts(w) /\ GateSetUp(w)
    \/ Accepts(w) /\ GateStart(w)
    \/ PeerStep(w)

SpecGate == Init /\ [][NextGate]_vars

\* SpecScoreRace: score-consultation requests for one lookup key, the
\* workers' requests interleaved
ScoreRaceStart(w) ==
  /\ RoomForConsultation(MaxConsultations)
  /\ \E details \in {Headache, HeadacheAgain} :
       /\ RoomForPatientCase(details)
       /\ ScoreQuery(w, "Doctor: hello", details, 1, GoodScores)

NextScoreRace ==
  \E w \in Workers :
    \/ Accepts(w) /\ RegisterStart(w)
    \/ Accepts(w) /\ ScoreRaceStart(w)
    \/ ScoreStep(w)

SpecScoreRace == Init /\ [][NextScoreRace]_vars

\* SpecScorer: score-consultation with every response of the language model,
\* one request at a time
ScorerStart(w) ==
  /\ RoomForConsultation(MaxConsultations)
  /\ RoomForPatientCase(Headache)
  /\ \E outcome \in ScorerResponses :
       ScoreQuery(w, "Doctor: hello", Headache, 1, outcome)

NextScorer ==
  \E w \in Workers :
    \/ AllIdle /\ Accepts(w) /\ RegisterStart(w)
    \/ AllIdle /\ Accepts(w) /\ ScorerStart(w)
    \/ ScoreStep(w)

SpecScorer == Init /\ [][NextScorer]_vars

\* SpecUsers: the user router, one request at a time
NextUsers ==
  \E w \in Workers :
    \/ /\ AllIdle
       /\ Accepts(w)
       /\ \E first \in FirstNames, outcome \in AuthOutcomes :
            RegisterAuth(w, first, "Lee", outcome)
    \/ RegisterCommit(w)
    \/ /\ AllIdle
       /\ Accepts(w)
       /\ \E id \in UserIds, first \in FirstNames :
            OAuthRegisterQuery(w, id, first, "Lee")
    \/ OAuthRegisterCommit(w)

SpecUsers == Init /\ [][NextUsers]_vars

\* SpecShared: consultations of two cases scored, shared, unshared, commented
\* and listed, one request at a time
SharedStart(w) ==
  \/ /\ RoomForConsultation(MaxConsultations)
     /\ \E details \in {Headache, Cough} :
          /\ RoomForPatientCase(details)
          /\ ScoreQuery(w, "Doctor: hello", details, 1, GoodScores)
  \/ \E id \in ConsultationIds : ShareQuery(w, id)
  \/ \E id \in ConsultationIds : UnshareQuery(w, id)
  \/ /\ RoomForComment(MaxComments)
     /\ \E id \in ConsultationIds : AddCommentQuery(w, id, 1, "well done")
  \/ GetSharedConsultations(w)

NextShared ==
  \E w \in Workers :
    \/ AllIdle /\ Accepts(w) /\ RegisterStart(w)
    \/ AllIdle /\ Accepts(w) /\ SharedStart(w)
    \/ PeerStep(w)

SpecShared == Init /\ [][NextShared]_vars

\* SpecHistory: consultations of two cases scored, shared, unshared, commented
\* and read back with get_history, one request at a time
HistoryStart(w) ==
  \/ /\ RoomForConsultation(MaxConsultations)
     /\ \E details \in {Headache, Cough} :
          /\ RoomForPatientCase(details)
          /\ ScoreQuery(w, "Doctor: hello", details, 1, GoodScores)
  \/ \E id \in ConsultationIds : ShareQuery(w, id)
  \/ \E id \in ConsultationIds : UnshareQuery(w, id)
  \/ /\ RoomForComment(MaxComments)
     /\ \E id \in ConsultationIds : AddCommentQuery(w, id, 1, "well done")
  \/ GetHistory(w)

NextHistory ==
  \E w \in Workers :
    \/ AllIdle /\ Accepts(w) /\ RegisterStart(w)
    \/ AllIdle /\ Accepts(w) /\ HistoryStart(w)
    \/ PeerStep(w)

SpecHistory == Init /\ [][NextHistory]_vars

\* SpecVapi: one get_vapi_call request, on every call record
NextVapi ==
  \E w \in Workers :
    \/ /\ AllIdle /\ Accepts(w) /\ last = NoResponse
       /\ \E call \in CallRecords : VapiFetch(w, call)
    \/ VapiNormalize(w)

SpecVapi == Init /\ [][NextVapi]_vars

\* SpecCase: the case router, the workers' requests interleaved
RoomForCase == Len(cases) < MaxCases

NextCase ==
  \E w \in Workers :
    \/ /\ RoomForCase
       /\ Accepts(w)
       /\ \E request \in CreateCaseRequests : CreateCaseInsert(w, request)
    \/ \E persisted \in BOOLEAN : CreateCaseChildren(w, persisted)
    \/ RoomForCase /\ Accepts(w) /\ GenerateCaseInsert(w)
    \/ GenerateCaseDoctor(w)
    \/ Accepts(w) /\ \E id \in CaseIds : GetCase(w, id)

SpecCase == Init /\ [][NextCase]_vars

\* ------------------------------------------------------------------ claims
\* the step in which worker w returns the response of the request whose
\* position was pc
Returns(w, pc) == req[w].pc = pc /\ req'[w].pc = "idle"

\* a step in which idle worker w can have taken up a request of one of the
\* operations ops: the request is now in flight, or it was answered at once
Takes(w, ops) ==
  /\ IsIdle(w)
  /\ \/ req'[w].op \in ops
     \/ req' = req /\ last'.op \in ops

\* C1, first half: add comment on an existing consultation whose shared flag
\* is false returns 403, ends the request and creates no comment row; on a
\* shared consultation the same call goes on to the insert. (Only a step
\* that leaves an add-comment request or response behind can be such a call.)
C1_Gate ==
  \A w \in Workers :
    Takes(w, {"add_comment"}) =>
      \A id \in DOMAIN consultations, uid \in UserIds, text \in Comments :
        AddCommentQuery(w, id, uid, text) =>
          IF consultations[id].is_shared
          THEN /\ req'[w].pc = "comment_commit"
               /\ <<req'[w].id, req'[w].uid, req'[w].text>> = <<id, uid, text>>
               /\ peer_comments' = peer_comments
          ELSE /\ last' = Response("add_comment", 403, id, None)
               /\ req'[w] = Idle
               /\ peer_comments' = peer_comments

C2_GateHoldsAtWrite ==
  [][\A i \in DOMAIN peer_comments' :
       i \notin DOMAIN peer_comments =>
         consultations[peer_comments'[i].consultation_id].is_shared]_vars

\* the comment rows of consultation id, as a response lists them
ListsCommentsOf(body, id) ==
  /\ Len(body) = Cardinality(CommentsOf(id))
  /\ {body[k].id : k \in DOMAIN body} = CommentsOf(id)
  /\ \A k \in DOMAIN body :
       /\ body[k].comment = peer_comments[body[k].id].comment
       /\ body[k].user_id = peer_comments[body[k].id].user_id

C4_ScoreAddsOneRow ==
  [][\A w \in Workers :
       (req[w].op = "score" /\ req'[w].pc = "idle" /\ last'.status = 201) =>
         /\ Len(consultations') = Len(consultations) + 1
         /\ SubSeq(consultations', 1, Len(consultations)) = consultations
         /\ last'.id = Len(consultations')]_vars

\* the same transcript, case and user were scored twice: two equal rows
C4_Witness ==
  /\ last.op = "score"
  /\ last.status = 201
  /\ last.id = 2
  /\ Len(consultations) = 2
  /\ consultations[1] = consultations[2]

\* C5: no step deletes a consultation row or changes any of its fields other
\* than the shared flag.
C5_OnlySharedFlagChanges ==
  [][\A i \in DOMAIN consultations :
       /\ i \in DOMAIN consultations'
       /\ [consultations'[i] EXCEPT !.is_shared = consultations[i].is_shared]
            = consultations[i]]_vars

\* two consultations, the first shared, commented and unshared again, the
\* second shared
C5_Witness ==
  /\ Len(consultations) = 2
  /\ consultations[2].is_shared
  /\ ~consultations[1].is_shared
  /\ CommentsOf(1) # {}

\* C6: no two case rows have the same case_number.
C6_CaseNumbersDistinct ==
  \A i \in DOMAIN cases : \A j \in DOMAIN cases :
    i # j => cases[i].case_number # cases[j].case_number

\* two cases exist and a request with a case number already taken was refused
C6_Witness ==
  /\ Len(cases) = 2
  /\ last.op \in {"create_case", "generate_case"}
  /\ last.status = 500
  /\ last.body = IntegrityError

\* C7: create case with the case_number of an existing case fails with a
\* conflict error (a 4xx status), adds no row and changes no existing row.
C7_DuplicateIsConflict ==
  [][\A w \in Workers, request \in CreateCaseRequests :
       (/\ CreateCaseInsert(w, request)
        /\ \E i \in DOMAIN cases : cases[i].case_number = request.case_number) =>
         /\ last'.op = "create_case"
         /\ last'.status \in 400..499
         /\ UNCHANGED dbCase]_vars

\* rows are the entries of the request, in order, each owned by case id
ChildrenMatch(rows, entries, id) ==
  /\ Len(rows) = Len(entries)
  /\ \A k \in DOMAIN rows :
       /\ rows[k].case_id = id
       /\ \A f \in DOMAIN entries[k] : rows[k][f] = entries[k][f]

\* C8: a successful create-case with N ICE entries, M background details
\* and K information-divulged entries returns a case with exactly those
\* entries, each with the case_id of the new case; a get-case that follows
\* returns the same case, and no later step changes what get-case returns
\* for a case whose creation has ended.
C8_ChildrenOfCreatedCase ==
  [][/\ \A w \in Workers :
          (Returns(w, "case_children") /\ last'.status = 201) =>
            /\ last'.id = req[w].id
            /\ last'.body.id = req[w].id
            /\ ChildrenMatch(last'.body.ice_entries, req[w].input.ice_entries,
                             req[w].id)
            /\ ChildrenMatch(last'.body.background_details,
                             req[w].input.background_details, req[w].id)
            /\ ChildrenMatch(last'.body.information_divulged,
                             req[w].input.information_divulged, req[w].id)
     /\ (/\ last.op = "create_case" /\ last.status = 201
         /\ last'.op = "get_case" /\ last'.id = last.id) =>
           (last'.status = 200 /\ last'.body = last.body)
     /\ \/ UNCHANGED dbCase
        \/ \A id \in DOMAIN cases :
             (\A w \in Workers :
                ~(/\ req[w].pc \in {"case_children", "generate_doctor"}
                  /\ req[w].id = id)) =>
               CaseView(id, cases', ice', background_details',
                        information_divulged', doctor_info')
                 = CaseView(id, cases, ice, background_details,
                            information_divulged, doctor_info)]_vars

\* get-case of the second case returns its 2 + 1 + 1 children while the
\* first case owns ICE rows of its own
C8_Witness ==
  /\ last.op = "get_case"
  /\ last.status = 200
  /\ last.id = 2
  /\ Len(last.body.ice_entries) = 2
  /\ Len(last.body.background_details) = 1
  /\ Len(last.body.information_divulged) = 1
  /\ \E i \in DOMAIN ice : ice[i].case_id = 1

\* C9: every consultation row references an existing patient case and an
\* existing user, and a score-consultation request whose user id matches no
\* user row ends with 500 and creates no consultation row.
C9_ConsultationReferences ==
  /\ [](\A i \in DOMAIN consultations :
          /\ consultations[i].patient_case_id \in DOMAIN patient_cases
          /\ consultations[i].user_id \in DOMAIN users)
  /\ [][\A w \in Workers :
          (Returns(w, "score_insert") /\ req[w].uid \notin DOMAIN users) =>
            /\ consultations' = consultations
            /\ last'.status = 500]_vars

\* a consultation exists and a request naming an unknown user was refused
C9_Witness ==
  /\ last.op = "score"
  /\ last.status = 500
  /\ last.body = IntegrityError
  /\ Len(consultations) = 1
  /\ Len(patient_cases) = 2

\* C10: each case has at most one doctor-info row.
C10_OneDoctorInfoPerCase ==
  \A c \in DOMAIN cases :
    Cardinality({i \in DOMAIN doctor_info : doctor_info[i].case_id = c}) <= 1

\* a generated case and a created case, each with its doctor-info row
C10_Witness ==
  /\ Len(cases) = 2
  /\ \E i, j \in DOMAIN doctor_info :
       /\ doctor_info[i].case_id = 1
       /\ doctor_info[j].case_id = 2
       /\ doctor_info[i].name # doctor_info[j].name

\* C11: share (unshare) on an existing consultation always succeeds and leaves
\* the shared flag true (false) with every other field and row as it was;
\* called on a consultation that is already shared (unshared) it leaves the
\* state it found.
C11_ShareUnshareIdempotent ==
  [][\A w \in Workers :
       /\ Takes(w, {"share", "unshare"}) =>
            \A id \in DOMAIN consultations :
              /\ ShareQuery(w, id) => req'[w].pc = "share_commit"
              /\ UnshareQuery(w, id) => req'[w].pc = "unshare_commit"
       /\ Returns(w, "share_commit") =>
            /\ last' = Response("share", 200, req[w].id, None)
            /\ consultations' = [consultations EXCEPT ![req[w].id].is_shared = TRUE]
            /\ consultations[req[w].id].is_shared => consultations' = consultations
       /\ Returns(w, "unshare_commit") =>
            /\ last' = Response("unshare", 200, req[w].id, None)
            /\ consultations' = [consultations EXCEPT ![req[w].id].is_shared = FALSE]
            /\ ~consultations[req[w].id].is_shared => consultations' = consultations]_vars

\* a second share in a row: the first one succeeded, and the next request
\* to share the same consultation has found it shared
C11_Witness ==
  /\ last = Response("share", 200, 1, None)
  /\ \E w \in Workers :
       req[w].pc = "share_commit" /\ req[w].id = 1 /\ req[w].seen

\* C12: share, unshare, add comment and list comments with a consultation id
\* that matches no consultation row return 404, end the request and leave
\* every consultation and comment row unchanged.
C12_UnknownConsultationNotFound ==
  [][\A w \in Workers, id \in ConsultationIds \ DOMAIN consultations :
       LET NotFound(op) ==
             /\ last' = Response(op, 404, id, None)
             /\ req'[w] = Idle
             /\ UNCHANGED <<consultations, peer_comments>>
       IN Takes(w, {"share", "unshare", "get_comments", "add_comment"}) =>
          /\ ShareQuery(w, id) => NotFound("share")
          /\ UnshareQuery(w, id) => NotFound("unshare")
          /\ GetComments(w, id) => NotFound("get_comments")
          /\ \A uid \in CommentUserIds, text \in Comments :
               AddCommentQuery(w, id, uid, text) => NotFound("add_comment")]_vars

\* list comments was refused for an id beyond the two consultations, one of
\* which is shared and has a comment
C12_Witness ==
  /\ last = Response("get_comments", 404, 3, None)
  /\ Len(consultations) = 2
  /\ \E i \in DOMAIN peer_comments :
       consultations[peer_comments[i].consultation_id].is_shared

\* the sum of the domain scores
SumOfScores(scores) == scores[1] + scores[2] + scores[3]

\* C13: no consultation row is stored with a domain score outside 1..5 or
\* with an overall score other than the mean of its three domain scores.
C13_StoredScoresValid ==
  \A i \in DOMAIN consultations :
    /\ \A k \in DOMAIN consultations[i].domain_scores :
         consultations[i].domain_scores[k] \in 1..5
    /\ Len(consultations[i].domain_scores) = 3
    /\ 3 * consultations[i].overall_score = SumOfScores(consultations[i].domain_scores)

\* C14: score-consultation returns no response whose coverage statuses
\* include a value other than COVERED, PARTIALLY_COVERED and NOT_COVERED.
C14_CoverageStatusClosed ==
  (last.op = "score" /\ last.status = 201) =>
    \A k \in DOMAIN last.body.coverage :
      last.body.coverage[k] \in {"COVERED", "PARTIALLY_COVERED", "NOT_COVERED"}

C16_AuthFailureNoUserRow ==
  [][\A w \in Workers, first \in FirstNames,
        outcome \in {AuthUnreachable, AuthRejects, AuthBadGateway} :
       RegisterAuth(w, first, "Lee", outcome) =>
         /\ users' = users
         /\ req'[w] = Idle
         /\ last'.op = "register"
         /\ outcome.answered => last'.status = outcome.status]_vars

FirstNonEmptyShape(call) ==
  LET top == IF call.transcript.present /\ call.transcript.is_list
             THEN call.transcript.value ELSE <<>>
      art == IF call.has_artifact /\ call.artifact_transcript.present
             THEN IF call.artifact_transcript.is_str
                  THEN ParseTranscriptString(call.artifact_transcript.str)
                  ELSE call.artifact_transcript.value
             ELSE <<>>
      msg == IF call.messages.present THEN TurnsOfMessages(call.messages.value)
             ELSE <<>>
      oai == IF call.has_artifact /\ call.openai.present
             THEN TurnsOfOpenAI(call.openai.value) ELSE <<>>
  IN IF Len(top) > 0 THEN top
     ELSE IF Len(art) > 0 THEN art
     ELSE IF Len(msg) > 0 THEN msg
     ELSE oai

\* C18: the transcript get_vapi_call returns is the turn list of the first
\* place, in the order top-level transcript, artifact.transcript, messages,
\* messagesOpenAIFormatted, that gives at least one turn; a place that is
\* present and gives no turn does not stop a later place from being tried
C18_FirstNonEmptyShape ==
  [][\A w \in Workers :
       VapiNormalize(w) =>
         last'.body.transcript = FirstNonEmptyShape(req[w].input)]_vars

\* the artifact.transcript string is the place the transcript is taken from
ReadsTranscriptString(call) ==
  /\ ~(call.transcript.present /\ call.transcript.is_list)
  /\ call.has_artifact
  /\ call.artifact_transcript.present
  /\ call.artifact_transcript.is_str
  /\ ~call.openai.present

\* the lines of the string that are not blank
RECURSIVE NonEmptyLines(_)
NonEmptyLines(lines) ==
  IF Len(lines) = 0 THEN <<>>
  ELSE (IF Len(Strip(Head(lines))) > 0 THEN <<Head(lines)>> ELSE <<>>)
         \o NonEmptyLines(Tail(lines))

\* the line starts, blanks and letter case aside, with the label "doctor"
DoctorLine(line) ==
  LET text == Lower(Strip(line))
  IN /\ Len(text) > 0
     /\ text[1] = "doctor"
     /\ Len(text) > 1 => Strip(Tail(text))[1] = ":"

\* C19: when artifact.transcript is a newline-delimited string, the transcript
\* returned has exactly one turn for each non-empty line, in the order of the
\* lines, the speaker "human" for a line labelled doctor in any letter case
\* and "assistant" for every other line
C19_OneTurnPerNonEmptyLine ==
  [][\A w \in Workers :
       (VapiNormalize(w) /\ ReadsTranscriptString(req[w].input)) =>
         LET lines == NonEmptyLines(SplitLines(req[w].input.artifact_transcript.str))
             turns == last'.body.transcript
         IN /\ Len(turns) = Len(lines)
            /\ \A k \in DOMAIN lines :
                 turns[k].speaker =
                   IF DoctorLine(lines[k]) THEN "human" ELSE "assistant"]_vars

\* C20: the list of shared consultations holds every consultation whose
\* shared flag is true, once, and no other, the newest first, and the
\* comment_count of each entry is the number of comment rows of that
\* consultation
C20_SharedListExact ==
  [][\A w \in Workers :
       (last'.op = "get_shared_consultations" /\ GetSharedConsultations(w)) =>
         LET shared == last'.body.shared_consultations
         IN /\ {shared[k].id : k \in DOMAIN shared}
                 = {id \in DOMAIN consultations : consultations[id].is_shared}
            /\ \A j, k \in DOMAIN shared :
                 j < k => CreatedAt(shared[k].id) < CreatedAt(shared[j].id)
            /\ \A k \in DOMAIN shared :
                 shared[k].comment_count
                   = Cardinality({c \in DOMAIN peer_comments :
                                    peer_comments[c].consultation_id = shared[k].id})]_vars

\* both consultations are shared, one of them commented, and listed newest first
C20_Witness ==
  /\ last.op = "get_shared_consultations"
  /\ Len(last.body.shared_consultations) = 2
  /\ last.body.shared_consultations[1].id = 2
  /\ last.body.shared_consultations[2].comment_count = 1
  /\ last.body.shared_consultations[1].case_details
       # last.body.shared_consultations[2].case_details

\* C21: get_history gives every consultation it returns the shared flag of
\* its row and, as comment_count, the number of comment rows of that
\* consultation, whether the consultation is shared or not
C21_HistoryCountsComments ==
  [][\A w \in Workers :
       (last'.op = "get_history" /\ GetHistory(w)) =>
         LET history == last'.body.history
         IN \A k \in DOMAIN history :
              /\ history[k].is_shared = consultations[history[k].id].is_shared
              /\ history[k].comment_count
                   = Cardinality({c \in DOMAIN peer_comments :
                                    peer_comments[c].consultation_id = history[k].id})]_vars

CasesWithKey(details) ==
  {c \in DOMAIN patient_cases :
     /\ patient_cases[c].age = details.age
     /\ patient_cases[c].presenting = details.presenting}

\* C23: score-consultation finds or creates its case. When a case with the
\* lookup key of the supplied details exists, the request goes on with that
\* case and adds no case row; when none exists, it adds exactly one case
\* row, made from the supplied details; the consultation it then creates
\* references the case found or created, and creating it adds no case row.
C23_FindOrCreateCase ==
  [][\A w \in Workers :
       /\ (IsIdle(w) /\ req'[w].op = "score") =>
            /\ patient_cases' = patient_cases
            /\ IF CasesWithKey(req'[w].details) # {}
               THEN /\ req'[w].pc = "score_insert"
                    /\ req'[w].id \in CasesWithKey(req'[w].details)
               ELSE req'[w].pc = "score_case"
       /\ (req[w].pc = "score_case" /\ req'[w] # req[w]) =>
            /\ patient_cases' = Append(patient_cases, req[w].details)
            /\ req'[w].pc = "score_insert"
            /\ req'[w].id = Len(patient_cases')
       /\ Returns(w, "score_insert") =>
            /\ patient_cases' = patient_cases
            /\ last'.status = 201 =>
                 /\ consultations'[last'.id].patient_case_id = req[w].id
                 /\ req[w].id \in CasesWithKey(req[w].details)]_vars

\* two consultations made for one case: the second request found the case
\* the first one had created
C23_Witness ==
  /\ last.op = "score"
  /\ last.status = 201
  /\ last.id = 2
  /\ Len(patient_cases) = 1
  /\ consultations[1].patient_case_id = 1
  /\ consultations[2].patient_case_id = 1

\* C24: the consultation row created by score-consultation holds the user id
\* and the transcript of the request, the id of the resolved case, and the
\* overall score, the feedback, the domain scores and the coverage analysis
\* of the scorer's answer; the consultation id returned is the id of that row
C24_RowHoldsScoringResult ==
  [][\A w \in Workers :
       (Returns(w, "score_insert") /\ last'.status = 201) =>
         /\ last'.id = Len(consultations')
         /\ Len(consultations') = Len(consultations) + 1
         /\ LET row == consultations'[last'.id]
            IN /\ row.user_id = req[w].uid
               /\ row.transcript = req[w].text
               /\ row.patient_case_id = req[w].id
               /\ row.overall_score = req[w].scores.overall_score
               /\ row.feedback = req[w].scores.feedback
               /\ row.domain_scores = req[w].scores.scores
               /\ "coverage" \in DOMAIN row
               /\ row.coverage = req[w].scores.coverage]_vars

\* the consultation table with the shared flag of row id set to value and
\* nothing else changed
WithFlag(id, value) == [consultations EXCEPT ![id].is_shared = value]

\* C25: when share and unshare requests on one consultation interleave, each
\* of them succeeds, and each commit leaves the shared flag at the value of
\* its request (true for share, false for unshare), so that the flag is the
\* value of the request that committed last; no other field of the
\* consultation and no comment row changes
C25_LastWriterWins ==
  [][\A w \in Workers :
       /\ Returns(w, "share_commit") =>
            /\ last' = Response("share", 200, req[w].id, None)
            /\ consultations' = WithFlag(req[w].id, TRUE)
            /\ peer_comments' = peer_comments
       /\ Returns(w, "unshare_commit") =>
            /\ last' = Response("unshare", 200, req[w].id, None)
            /\ consultations' = WithFlag(req[w].id, FALSE)
            /\ peer_comments' = peer_comments]_vars

\* the child tables
children == <<ice, background_details, information_divulged, doctor_info>>

\* case id owns no row of any child table after the step
Childless(id) ==
  /\ RowIds(ice', "case_id", id) = {}
  /\ RowIds(background_details', "case_id", id) = {}
  /\ RowIds(information_divulged', "case_id", id) = {}
  /\ RowIds(doctor_info', "case_id", id) = {}

\* C26: create case commits the case row first, with no child row, and all
\* children in one later commit: when persisting the children fails the
\* request returns 500, the case row stays, and the case has none of the
\* requested ICE, background, information-divulged or doctor-info rows;
\* when it succeeds all of them are there
C26_CaseCommittedBeforeChildren ==
  [][\A w \in Workers :
       /\ (IsIdle(w) /\ req'[w].pc = "case_children") =>
            /\ Len(cases') = Len(cases) + 1
            /\ SubSeq(cases', 1, Len(cases)) = cases
            /\ req'[w].id = Len(cases')
            /\ UNCHANGED children
            /\ Childless(req'[w].id)
       /\ Returns(w, "case_children") =>
            /\ cases' = cases
            /\ req[w].id \in DOMAIN cases
            /\ IF last'.status = 201
               THEN /\ Len(ice') = Len(ice) + Len(req[w].input.ice_entries)
                    /\ Len(background_details')
                         = Len(background_details) + Len(req[w].input.background_details)
                    /\ Len(information_divulged')
                         = Len(information_divulged)
                             + Len(req[w].input.information_divulged)
                    /\ Len(doctor_info') = Len(doctor_info) + Len(req[w].input.doctor_info)
               ELSE /\ last'.status = 500
                    /\ UNCHANGED children
                    /\ Childless(req[w].id)]_vars

\* the second create-case failed at its children: its case row is there and
\* owns nothing, while the first case has its ICE rows
C26_Witness ==
  /\ last.op = "create_case"
  /\ last.status = 500
  /\ last.body = OperationalError
  /\ Len(cases) = 2
  /\ RowIds(ice, "case_id", 1) # {}
  /\ RowIds(ice, "case_id", 2) = {}
  /\ RowIds(background_details, "case_id", 2) = {}
  /\ RowIds(information_divulged, "case_id", 2) = {}
  /\ RowIds(doctor_info, "case_id", 2) = {}
  /\ \A w \in Workers : IsIdle(w)

\* C27: score-consultation calls the scorer before any database write: a
\* request whose scorer call fails, or whose answer cannot be parsed, ends in
\* the step that takes it up and leaves the case rows and the consultation
\* rows as they were
C27_ScorerBeforeAnyWrite ==
  [][\A w \in Workers :
       Takes(w, {"score"}) =>
         \A outcome \in {ScorerFailure, UnparsableAnswer} :
           \* a request that goes on carries its inputs
           LET going == req'[w].op = "score"
               sentTranscripts == IF going THEN {req'[w].text} ELSE Transcripts
               sentDetails == IF going THEN {req'[w].details} ELSE AllCaseDetails
               sentUids == IF going THEN {req'[w].uid} ELSE UserIds
           IN (\E transcript \in sentTranscripts, details \in sentDetails,
                  uid \in sentUids :
                 ScoreQuery(w, transcript, details, uid, outcome)) =>
                /\ req'[w].pc = "idle"
                /\ patient_cases' = patient_cases
                /\ consultations' = consultations]_vars

\* a scoring that failed at the scorer on a database that knows no case yet
C27_Witness ==
  /\ last = Response("score", 500, 0, ScorerError)
  /\ patient_cases = <<>>
  /\ consultations = <<>>
  /\ users # <<>>

\* C28: whatever the interleaving of score-consultation requests that carry
\* the same lookup key, at most one case row has that key
C28_OneCasePerKey ==
  \A c, d \in DOMAIN patient_cases :
    (/\ patient_cases[c].age = patient_cases[d].age
     /\ patient_cases[c].presenting = patient_cases[d].presenting) => c = d

\* C29: score-consultation commits a case it creates apart from the
\* consultation: the step that creates the case adds the case row and no
\* consultation, and when the consultation then cannot be persisted the
\* request returns 500, no consultation row is added, and the case row stays
C29_ImplicitCaseOutlivesFailure ==
  [][\A w \in Workers :
       /\ (req[w].pc = "score_case" /\ req'[w] # req[w]) =>
            /\ Len(patient_cases') = Len(patient_cases) + 1
            /\ req'[w].id = Len(patient_cases')
            /\ consultations' = consultations
            /\ RowIds(consultations', "patient_case_id", req'[w].id) = {}
       /\ (Returns(w, "score_insert") /\ last'.status # 201) =>
            /\ last'.op = "score"
            /\ last'.status = 500
            /\ consultations' = consultations
            /\ patient_cases' = patient_cases
            /\ req[w].id \in DOMAIN patient_cases']_vars

\* the first scoring created its case and failed at the consultation: one
\* case row, no consultation
C29_Witness ==
  /\ last = Response("score", 500, 0, IntegrityError)
  /\ Len(patient_cases) = 1
  /\ consultations = <<>>
  /\ \A w \in Workers : IsIdle(w)

\* C30: a consultation starts with the shared flag false, the flag turns
\* true only in the step that ends a share of that consultation with
\* success, an add-comment request passes its gate only while the flag is
\* true, and a comment row is only written by a request that passed the gate
\* of its consultation; so every consultation with a comment row was shared
\* with success before that comment was created
C30_SharedBeforeCommented ==
  [][/\ \A i \in DOMAIN consultations' \ DOMAIN consultations :
          ~consultations'[i].is_shared
     /\ \A i \in DOMAIN consultations :
          (~consultations[i].is_shared /\ consultations'[i].is_shared) =>
            /\ last' = Response("share", 200, i, None)
            /\ \E w \in Workers : Returns(w, "share_commit") /\ req[w].id = i
     /\ \A w \in Workers :
          (IsIdle(w) /\ req'[w].pc = "comment_commit") =>
            /\ req'[w].id \in DOMAIN consultations
            /\ consultations[req'[w].id].is_shared
     /\ \A c \in DOMAIN peer_comments' \ DOMAIN peer_comments :
          \E w \in Workers :
            /\ Returns(w, "comment_commit")
            /\ req[w].id = peer_comments'[c].consultation_id]_vars

\* a commented consultation that is unshared by now: the unshare has just
\* ended
C30_Witness ==
  /\ last.op = "unshare"
  /\ last.status = 200
  /\ CommentsOf(last.id) # {}
  /\ ~consultations[last.id].is_shared

====
